---- MODULE Spec2Model ----
(***************************************************************************)
(* aoc-util, module input (src/src/input.rs): the FileReader builder and   *)
(* the four FromFile implementations (whole content, split at newlines,    *)
(* split at whitespace, split at a delimiter character).                   *)
(*                                                                         *)
(* A file is a sequence of characters.  A character is a one-letter        *)
(* string; BAD stands for a byte sequence that is not valid UTF-8.         *)
(***************************************************************************)
EXTENDS Integers, Sequences, FiniteSets, TLC

\* ------------------------------------------------------------------ bounds
\* Longest file content explored.
MaxLen == 3

\* ------------------------------------------------------------ the alphabet
SP == " "
LF == "\n"
CR == "\r"
BAD == "BAD"
Chars == {"4", "x", ",", SP, LF, CR, BAD}
Digits == {"4"}
Delimiters == {",", SP}
Paths == {"input.txt", "missing.txt"}
Types == {"u32", "String"}

RECURSIVE SeqsUpTo(_)
SeqsUpTo(n) ==
    IF n = 0 THEN {<<>>}
    ELSE LET S == SeqsUpTo(n - 1)
         IN  S \cup {Append(s, c) : s \in {t \in S : Len(t) = n - 1}, c \in Chars}

Contents == SeqsUpTo(MaxLen)

\* --------------------------------------------------- std: char and str
\* char::is_whitespace, restricted to the alphabet.
IsWhitespace(c) == c \in {SP, LF, CR}

RECURSIVE TrimStart(_)
TrimStart(s) ==
    IF s # <<>> /\ IsWhitespace(Head(s)) THEN TrimStart(Tail(s)) ELSE s

RECURSIVE TrimEnd(_)
TrimEnd(s) ==
    IF s # <<>> /\ IsWhitespace(s[Len(s)])
    THEN TrimEnd(SubSeq(s, 1, Len(s) - 1))
    ELSE s

\* str::trim
Trim(s) == TrimEnd(TrimStart(s))

\* The bytes are valid UTF-8.
IsUtf8(bytes) == \A i \in 1..Len(bytes) : bytes[i] # BAD

\* str::split(pattern): the pieces between the separators, empty ones kept;
\* a string with k separators has k + 1 pieces.
RECURSIVE SplitFrom(_, _, _)
SplitFrom(s, seps, piece) ==
    IF s = <<>> THEN <<piece>>
    ELSE IF Head(s) \in seps
         THEN <<piece>> \o SplitFrom(Tail(s), seps, <<>>)
         ELSE SplitFrom(Tail(s), seps, Append(piece, Head(s)))

Split(s, seps) == SplitFrom(s, seps, <<>>)

NonEmpty(chunk) == chunk # <<>>

\* str::split_whitespace: split at whitespace characters, empty pieces dropped.
StrSplitWhitespace(s) == SelectSeq(Split(s, {SP, LF, CR}), NonEmpty)

\* ---------------------------------------------------- std: T::from_str
RECURSIVE DecimalValue(_, _)
DecimalValue(s, acc) ==
    IF s = <<>> THEN acc
    ELSE DecimalValue(Tail(s), 10 * acc + (IF Head(s) = "4" THEN 4 ELSE 0))

\* <u32 as FromStr>::from_str.  MaxLen keeps every value far below 2^32, so
\* the PosOverflow error cannot occur.
ParseU32(s) ==
    IF s = <<>> THEN [tag |-> "Err", err |-> "Empty"]
    ELSE IF \E i \in 1..Len(s) : s[i] \notin Digits
         THEN [tag |-> "Err", err |-> "InvalidDigit"]
         ELSE [tag |-> "Ok", value |-> DecimalValue(s, 0)]

\* <String as FromStr>::from_str: never fails.
ParseString(s) == [tag |-> "Ok", value |-> s]

\* str::parse::<T>
Parse(T, s) == IF T = "u32" THEN ParseU32(s) ELSE ParseString(s)

\* --------------------------------------------------------- result values
Ok(v) == [tag |-> "Ok", value |-> v]
\* std::io::Error, the error type of the whole-content reader.
StdIoError(kind) == [tag |-> "io::Error", kind |-> kind]
\* Error::IoError (From<std::io::Error>), Error::ParseError.
IoError(kind) == [tag |-> "IoError", kind |-> kind]
ParseError(e) == [tag |-> "ParseError", err |-> e]

NoResult == [tag |-> "None"]
NoCall == [tag |-> "None"]
NoReader == [kind |-> "None"]

\* ------------------------------------------------------------ the builder
FileReader_new == [kind |-> "FileReader", trim |-> FALSE]

FileReader_trim(self) == [self EXCEPT !.trim = TRUE]

FileReader_split_lines_reset(self) == [kind |-> "SplitLines", trim |-> FALSE]
FileReader_split_lines(self) == [kind |-> "SplitLines", trim |-> self.trim]

FileReader_split_whitespace_keep(self) ==
    [kind |-> "SplitWhitespace", trim |-> self.trim]
FileReader_split_whitespace(self) == [kind |-> "SplitWhitespace"]

FileReader_split_char(self, delimiter) ==
    [kind |-> "SplitChar", trim |-> self.trim, delimiter |-> delimiter]

SplitLines_trim(self) == [self EXCEPT !.trim = TRUE]

SplitChar_trim(self) == [self EXCEPT !.trim = TRUE]

\* ------------------------------------------------------------- the files
\* File::open: the file's bytes, or the NotFound error.
File_open_create(fs, path) ==
    IF fs[path].exists THEN [tag |-> "Ok", bytes |-> fs[path].bytes]
    ELSE [tag |-> "Ok", bytes |-> <<>>]
File_open(fs, path) ==
    IF fs[path].exists THEN [tag |-> "Ok", bytes |-> fs[path].bytes]
    ELSE [tag |-> "Err", kind |-> "NotFound"]

\* Read::read_to_string: the whole text, or InvalidData.
read_to_string(bytes) ==
    IF IsUtf8(bytes) THEN [tag |-> "Ok", text |-> bytes]
    ELSE [tag |-> "Err", kind |-> "InvalidData"]

\* BufRead::read_line: the bytes up to and including the next newline (all
\* the bytes when there is none) are taken from the reader.
NewlineAt(bytes) ==
    IF \E i \in 1..Len(bytes) : bytes[i] = LF
    THEN CHOOSE i \in 1..Len(bytes) :
             bytes[i] = LF /\ \A j \in 1..(i - 1) : bytes[j] # LF
    ELSE Len(bytes)

\* std::io::Lines::next on a reader holding `rest`: None at the end of the
\* file; Err(InvalidData) for a line that is not UTF-8; otherwise the line
\* without its "\n" or "\r\n".
StripNewline(raw) ==
    IF raw # <<>> /\ raw[Len(raw)] = LF
    THEN LET a == SubSeq(raw, 1, Len(raw) - 1)
         IN  IF a # <<>> /\ a[Len(a)] = CR THEN SubSeq(a, 1, Len(a) - 1) ELSE a
    ELSE raw

Lines_next_raw(rest) ==
    IF rest = <<>> THEN [tag |-> "None"]
    ELSE LET n == NewlineAt(rest)
             raw == SubSeq(rest, 1, n)
             after == SubSeq(rest, n + 1, Len(rest))
         IN  IF IsUtf8(raw)
             THEN [tag |-> "Ok", line |-> raw, rest |-> after]
             ELSE [tag |-> "Err", kind |-> "InvalidData", rest |-> after]
Lines_next(rest) ==
    IF rest = <<>> THEN [tag |-> "None"]
    ELSE LET n == NewlineAt(rest)
             raw == SubSeq(rest, 1, n)
             after == SubSeq(rest, n + 1, Len(rest))
         IN  IF IsUtf8(raw)
             THEN [tag |-> "Ok", line |-> StripNewline(raw), rest |-> after]
             ELSE [tag |-> "Err", kind |-> "InvalidData", rest |-> after]

\* --------------------------------------------------- collecting the chunks
\* The outcome of a read: the value returned, the texts handed to the
\* parser (in order) and the number of items pulled from the line iterator.
Outcome(r, h, n) == [result |-> r, handed |-> h, pulled |-> n]

\* chunks.map(|chunk| chunk.parse().map_err(Error::ParseError)).collect():
\* the chunks are parsed in order and the first error ends the collection.
RECURSIVE Collect_skip(_, _, _)
Collect_skip(chunks, T, acc) ==
    IF chunks = <<>> THEN Outcome(Ok(acc.value), acc.handed, 0)
    ELSE LET r == Parse(T, Head(chunks))
             h == Append(acc.handed, Head(chunks))
         IN  IF r.tag = "Err"
             THEN Collect_skip(Tail(chunks), T, [acc EXCEPT !.handed = h])
             ELSE Collect_skip(Tail(chunks), T,
                               [value |-> Append(acc.value, r.value), handed |-> h])
RECURSIVE Collect(_, _, _)
Collect(chunks, T, acc) ==
    IF chunks = <<>> THEN Outcome(Ok(acc.value), acc.handed, 0)
    ELSE LET r == Parse(T, Head(chunks))
             h == Append(acc.handed, Head(chunks))
         IN  IF r.tag = "Err"
             THEN Outcome(ParseError(r.err), h, 0)
             ELSE Collect(Tail(chunks), T,
                          [value |-> Append(acc.value, r.value), handed |-> h])

EmptyAcc == [value |-> <<>>, handed |-> <<>>]

\* if self.trim { chunk.trim() } else { chunk }
Prepare(self, chunk) == IF self.trim THEN Trim(chunk) ELSE chunk

\* reader.lines().map(|line| line?. .. .parse().map_err(..)).collect():
\* each line is pulled, trimmed if asked and parsed before the next one is
\* pulled; the first error, of either kind, ends the iteration.
RECURSIVE SplitLines_collect_last(_, _, _, _)
SplitLines_collect_last(self, rest, T, acc) ==
    LET item == Lines_next(rest)
    IN  IF item.tag = "None" THEN acc
        ELSE IF item.tag = "Err"
        THEN SplitLines_collect_last(self, item.rest, T,
                 Outcome(IoError(item.kind), acc.handed, acc.pulled + 1))
        ELSE LET text == Prepare(self, item.line)
                 r == Parse(T, text)
                 h == Append(acc.handed, text)
             IN  IF r.tag = "Err"
                 THEN SplitLines_collect_last(self, item.rest, T,
                          Outcome(ParseError(r.err), h, acc.pulled + 1))
                 ELSE SplitLines_collect_last(self, item.rest, T,
                          IF acc.result.tag = "Ok"
                          THEN Outcome(Ok(Append(acc.result.value, r.value)), h,
                                       acc.pulled + 1)
                          ELSE Outcome(acc.result, h, acc.pulled + 1))
RECURSIVE SplitLines_collect(_, _, _, _)
SplitLines_collect(self, rest, T, acc) ==
    LET item == Lines_next(rest)
    IN  IF item.tag = "None" THEN acc
        ELSE IF item.tag = "Err"
        THEN Outcome(IoError(item.kind), acc.handed, acc.pulled + 1)
        ELSE LET text == Prepare(self, item.line)
                 r == Parse(T, text)
                 h == Append(acc.handed, text)
             IN  IF r.tag = "Err"
                 THEN Outcome(ParseError(r.err), h, acc.pulled + 1)
                 ELSE SplitLines_collect(self, item.rest, T,
                          Outcome(Ok(Append(acc.result.value, r.value)), h,
                                  acc.pulled + 1))

\* ------------------------------------------------------ read_from_file
\* impl FromFile<String> for FileReader
FileReader_read_from_file_trimmed(self, fs, path) ==
    LET file == File_open(fs, path)
    IN  IF file.tag = "Err" THEN Outcome(StdIoError(file.kind), <<>>, 0)
        ELSE LET buffer == read_to_string(file.bytes)
             IN  IF buffer.tag = "Err"
                 THEN Outcome(StdIoError(buffer.kind), <<>>, 0)
                 ELSE Outcome(Ok(Trim(buffer.text)), <<>>, 0)
FileReader_read_from_file(self, fs, path) ==
    LET file == File_open(fs, path)
    IN  IF file.tag = "Err" THEN Outcome(StdIoError(file.kind), <<>>, 0)
        ELSE LET buffer == read_to_string(file.bytes)
             IN  IF buffer.tag = "Err"
                 THEN Outcome(StdIoError(buffer.kind), <<>>, 0)
                 ELSE Outcome(Ok(IF self.trim THEN Trim(buffer.text)
                                 ELSE buffer.text), <<>>, 0)

\* impl<T> FromFile<Vec<T>> for SplitLines
SplitLines_read_from_file(self, fs, path, T) ==
    LET file == File_open(fs, path)
    IN  IF file.tag = "Err" THEN Outcome(IoError(file.kind), <<>>, 0)
        ELSE SplitLines_collect(self, file.bytes, T, Outcome(Ok(<<>>), <<>>, 0))

\* impl<T> FromFile<Vec<T>> for SplitWhitespace
SplitWhitespace_read_from_file_all(self, fs, path, T) ==
    LET file == File_open(fs, path)
    IN  IF file.tag = "Err" THEN Outcome(IoError(file.kind), <<>>, 0)
        ELSE LET buffer == read_to_string(file.bytes)
             IN  IF buffer.tag = "Err"
                 THEN Outcome(IoError(buffer.kind), <<>>, 0)
                 ELSE Collect(Split(buffer.text, {SP, LF, CR}), T, EmptyAcc)
SplitWhitespace_read_from_file(self, fs, path, T) ==
    LET file == File_open(fs, path)
    IN  IF file.tag = "Err" THEN Outcome(IoError(file.kind), <<>>, 0)
        ELSE LET buffer == read_to_string(file.bytes)
             IN  IF buffer.tag = "Err"
                 THEN Outcome(IoError(buffer.kind), <<>>, 0)
                 ELSE Collect(StrSplitWhitespace(buffer.text), T, EmptyAcc)

\* impl<T> FromFile<Vec<T>> for SplitChar
SplitChar_read_from_file_runs(self, fs, path, T) ==
    LET file == File_open(fs, path)
    IN  IF file.tag = "Err" THEN Outcome(IoError(file.kind), <<>>, 0)
        ELSE LET buffer == read_to_string(file.bytes)
             IN  IF buffer.tag = "Err"
                 THEN Outcome(IoError(buffer.kind), <<>>, 0)
                 ELSE LET chunks ==
                              SelectSeq(Split(buffer.text, {self.delimiter}), NonEmpty)
                      IN  Collect([i \in 1..Len(chunks) |-> Prepare(self, chunks[i])],
                                  T, EmptyAcc)
SplitChar_read_from_file(self, fs, path, T) ==
    LET file == File_open(fs, path)
    IN  IF file.tag = "Err" THEN Outcome(IoError(file.kind), <<>>, 0)
        ELSE LET buffer == read_to_string(file.bytes)
             IN  IF buffer.tag = "Err"
                 THEN Outcome(IoError(buffer.kind), <<>>, 0)
                 ELSE LET chunks == Split(buffer.text, {self.delimiter})
                      IN  Collect([i \in 1..Len(chunks) |-> Prepare(self, chunks[i])],
                                  T, EmptyAcc)

\* read_from_file takes &self: the configuration is only borrowed and is the
\* same value when the call returns.
Borrowed_set_trim(self) ==
    IF self.kind = "SplitWhitespace" THEN self ELSE [self EXCEPT !.trim = TRUE]
Borrowed(self) == self

\* ------------------------------------------------------------ the state
VARIABLES
    fs,      \* the files: path -> [exists, bytes]; never written
    reader,  \* the configuration value the caller holds
    hist,    \* the builder calls made so far: trim() called before / after the
             \* split_* call, the split_* call made and its delimiter
    last,    \* the kind of the last operation: "build" or "read"
    call,    \* the last read_from_file call: its receiver, path and T
    again,   \* that call repeated the call before it
    result,  \* what that call returned
    handed,  \* the texts that call handed to the parser, in order
    pulled   \* the number of items that call pulled from the line iterator

vars == <<fs, reader, hist, last, call, again, result, handed, pulled>>

FileOf(bytes) == [exists |-> TRUE, bytes |-> bytes]
Missing == [exists |-> FALSE, bytes |-> <<>>]

Init ==
    /\ fs \in {[p \in Paths |-> IF p = "input.txt" THEN FileOf(c) ELSE Missing] :
                 c \in Contents}
    /\ reader = NoReader
    /\ hist = [trimBefore |-> FALSE, trimAfter |-> FALSE, split |-> "None",
               delimiter |-> "None"]
    /\ last = "build"
    /\ call = NoCall
    /\ again = FALSE
    /\ result = NoResult
    /\ handed = <<>>
    /\ pulled = 0

Built(r, h) ==
    /\ reader' = r
    /\ hist' = h
    /\ last' = "build"
    /\ UNCHANGED <<fs, call, again, result, handed, pulled>>

\* FileReader::new()
New ==
    /\ reader = NoReader
    /\ Built(FileReader_new, hist)

\* FileReader::trim(self)
TrimFileReader ==
    /\ reader.kind = "FileReader"
    /\ Built(FileReader_trim(reader), [hist EXCEPT !.trimBefore = TRUE])

\* FileReader::split_lines(self)
SplitLines ==
    /\ reader.kind = "FileReader"
    /\ Built(FileReader_split_lines(reader), [hist EXCEPT !.split = "SplitLines"])

\* FileReader::split_whitespace(self)
SplitWhitespace ==
    /\ reader.kind = "FileReader"
    /\ Built(FileReader_split_whitespace(reader),
             [hist EXCEPT !.split = "SplitWhitespace"])

\* FileReader::split_char(self, delimiter)
SplitChar(delimiter) ==
    /\ reader.kind = "FileReader"
    /\ Built(FileReader_split_char(reader, delimiter),
             [hist EXCEPT !.split = "SplitChar", !.delimiter = delimiter])

\* SplitLines::trim(self)
TrimSplitLines ==
    /\ reader.kind = "SplitLines"
    /\ Built(SplitLines_trim(reader), [hist EXCEPT !.trimAfter = TRUE])

\* SplitChar::trim(self)
TrimSplitChar ==
    /\ reader.kind = "SplitChar"
    /\ Built(SplitChar_trim(reader), [hist EXCEPT !.trimAfter = TRUE])

Returned(path, T, out) ==
    /\ call' = [tag |-> "Call", self |-> reader, path |-> path, T |-> T]
    /\ again' = (call' = call)
    /\ result' = out.result
    /\ handed' = out.handed
    /\ pulled' = out.pulled
    /\ reader' = Borrowed(reader)
    /\ last' = "read"
    /\ UNCHANGED <<fs, hist>>

\* <FileReader as FromFile<String>>::read_from_file(&self, path)
ReadString(path) ==
    /\ reader.kind = "FileReader"
    /\ Returned(path, "String", FileReader_read_from_file(reader, fs, path))

\* <SplitLines as FromFile<Vec<T>>>::read_from_file(&self, path)
ReadLines(path, T) ==
    /\ reader.kind = "SplitLines"
    /\ Returned(path, T, SplitLines_read_from_file(reader, fs, path, T))

\* <SplitWhitespace as FromFile<Vec<T>>>::read_from_file(&self, path)
ReadWhitespace(path, T) ==
    /\ reader.kind = "SplitWhitespace"
    /\ Returned(path, T, SplitWhitespace_read_from_file(reader, fs, path, T))

\* <SplitChar as FromFile<Vec<T>>>::read_from_file(&self, path)
ReadChar(path, T) ==
    /\ reader.kind = "SplitChar"
    /\ Returned(path, T, SplitChar_read_from_file(reader, fs, path, T))

Next ==
    \/ New
    \/ TrimFileReader
    \/ SplitLines
    \/ SplitWhitespace
    \/ \E delimiter \in Delimiters : SplitChar(delimiter)
    \/ TrimSplitLines
    \/ TrimSplitChar
    \/ \E path \in Paths : ReadString(path)
    \/ \E path \in Paths, T \in Types : ReadLines(path, T)
    \/ \E path \in Paths, T \in Types : ReadWhitespace(path, T)
    \/ \E path \in Paths, T \in Types : ReadChar(path, T)

Spec == Init /\ [][Next]_vars

\* =================================================================== claims
\* Reference definitions, written from the file's characters alone.

IsCall == call.tag = "Call"
OnFile == IsCall /\ fs[call.path].exists
Bytes == fs[call.path].bytes

RECURSIVE Ascending(_)
Ascending(S) ==
    IF S = {} THEN <<>>
    ELSE LET m == CHOOSE x \in S : \A y \in S : x <= y
         IN  <<m>> \o Ascending(S \ {m})

IsPrefix(a, b) == Len(a) <= Len(b) /\ \A i \in 1..Len(a) : a[i] = b[i]

\* The positions of character c in s, ascending.
Positions(s, c) == Ascending({i \in 1..Len(s) : s[i] = c})

\* The pieces of s between the occurrences of c: one more than occurrences.
PiecesBetween(s, c) ==
    LET pos == Positions(s, c)
        k == Len(pos)
    IN  [j \in 1..(k + 1) |->
            SubSeq(s, IF j = 1 THEN 1 ELSE pos[j - 1] + 1,
                      IF j = k + 1 THEN Len(s) ELSE pos[j] - 1)]

\* The lines of a file: the pieces between newlines, a "\r" before the
\* newline belonging to the terminator; nothing after the last newline is
\* not a line.
FileLines(s) ==
    LET pieces == PiecesBetween(s, LF)
        k == Len(pieces) - 1
        n == IF pieces[k + 1] = <<>> THEN k ELSE k + 1
    IN  [i \in 1..n |->
            LET l == pieces[i]
            IN  IF i <= k /\ l # <<>> /\ l[Len(l)] = CR
                THEN SubSeq(l, 1, Len(l) - 1) ELSE l]

\* The maximal runs of non-whitespace characters of s, in order.
MaximalRuns(s) ==
    LET starts == Ascending({i \in 1..Len(s) :
                      /\ ~IsWhitespace(s[i])
                      /\ (i = 1 \/ IsWhitespace(s[i - 1]))})
        EndOf(i) == CHOOSE j \in i..Len(s) :
                      /\ \A m \in i..j : ~IsWhitespace(s[m])
                      /\ (j = Len(s) \/ IsWhitespace(s[j + 1]))
    IN  [r \in 1..Len(starts) |-> SubSeq(s, starts[r], EndOf(starts[r]))]

\* t is s without its leading and trailing whitespace.
IsTrimOf(t, s) ==
    /\ t = <<>> \/ (~IsWhitespace(t[1]) /\ ~IsWhitespace(t[Len(t)]))
    /\ \E a \in 0..Len(s) :
          /\ a + Len(t) <= Len(s)
          /\ t = SubSeq(s, a + 1, a + Len(t))
          /\ \A i \in 1..a : IsWhitespace(s[i])
          /\ \A i \in (a + Len(t) + 1)..Len(s) : IsWhitespace(s[i])

Trimmed(self, texts) ==
    [i \in 1..Len(texts) |-> IF self.trim THEN Trim(texts[i]) ELSE texts[i]]

\* The chunks of the file under the call's splitting mode, as prepared for
\* the parser.
ChunksOf(self, s) ==
    IF self.kind = "SplitLines" THEN Trimmed(self, FileLines(s))
    ELSE IF self.kind = "SplitWhitespace" THEN MaximalRuns(s)
    ELSE Trimmed(self, PiecesBetween(s, self.delimiter))

\* A chunk that is text and that T cannot be parsed from.
Unparseable(T, chunk) == IsUtf8(chunk) /\ Parse(T, chunk).tag = "Err"

IsSplit(self) == self.kind \in {"SplitLines", "SplitWhitespace", "SplitChar"}

HasUnparseable ==
    /\ OnFile
    /\ IsSplit(call.self)
    /\ \E i \in 1..Len(ChunksOf(call.self, Bytes)) :
          Unparseable(call.T, ChunksOf(call.self, Bytes)[i])

FirstUnparseable ==
    LET chunks == ChunksOf(call.self, Bytes)
    IN  CHOOSE i \in 1..Len(chunks) :
            /\ Unparseable(call.T, chunks[i])
            /\ \A j \in 1..(i - 1) : ~Unparseable(call.T, chunks[j])

\* No invalid text is met before the first unparseable chunk is parsed: line
\* mode reads line by line, the other modes read the whole file first.
TextValidBeforeFailure ==
    IF call.self.kind = "SplitLines"
    THEN \A j \in 1..(FirstUnparseable - 1) :
             IsUtf8(ChunksOf(call.self, Bytes)[j])
    ELSE IsUtf8(Bytes)

\* C1 as stated: whenever the file has an unparseable chunk, a split read
\* returns ParseError.
C1_AlwaysParseError == HasUnparseable => result.tag = "ParseError"

\* C1, amended: whenever the file has an unparseable chunk, a split read
\* returns an error and never Ok (no partial sequence); the error is
\* ParseError when no invalid text is met before the failing chunk, and
\* IoError(InvalidData) otherwise.
C1_AllOrNothing ==
    HasUnparseable =>
        /\ result.tag # "Ok"
        /\ IF TextValidBeforeFailure
           THEN result.tag = "ParseError"
           ELSE result = IoError("InvalidData")

C1_Witness ==
    /\ HasUnparseable
    /\ result.tag = "ParseError"
    /\ Len(handed) >= 2
    /\ call.self.kind = "SplitWhitespace"

\* C2: read_from_file on a path that does not exist returns the I/O error
\* (std::io::Error for the whole-content reader, Error::IoError for the split
\* readers), whatever the mode and the trim setting.
C2_MissingFileIsIoError ==
    (IsCall /\ ~fs[call.path].exists) =>
        /\ result = IF call.self.kind = "FileReader"
                    THEN StdIoError("NotFound") ELSE IoError("NotFound")
        /\ handed = <<>>

C2_Witness ==
    /\ IsCall
    /\ ~fs[call.path].exists
    /\ call.self.kind = "SplitChar"
    /\ call.self.trim
    /\ result.tag = "IoError"

\* C3: a successful line-split read returns one parsed value per line of the
\* file, in order, empty lines included; the text handed to the parser is the
\* line without its terminator, trimmed iff trim is set; no text handed to
\* the parser ever contains the newline.
C3_OneValuePerLine ==
    (OnFile /\ call.self.kind = "SplitLines") =>
        /\ \A i \in 1..Len(handed) : \A j \in 1..Len(handed[i]) : handed[i][j] # LF
        /\ result.tag = "Ok" =>
              LET texts == Trimmed(call.self, FileLines(Bytes))
              IN  /\ handed = texts
                  /\ Len(result.value) = Len(texts)
                  /\ \A i \in 1..Len(texts) :
                        result.value[i] = Parse(call.T, texts[i]).value

C3_Witness ==
    /\ OnFile
    /\ call.self.kind = "SplitLines"
    /\ ~call.self.trim
    /\ call.T = "String"
    /\ Bytes = <<LF, SP, "4">>
    /\ result = Ok(<< <<>>, <<SP, "4">> >>)

\* C4: the whole-content read returns the text without its leading and
\* trailing whitespace when trim is set and the text unchanged when it is
\* not; the two agree on a text with no leading or trailing whitespace.
C4_WholeContent ==
    (OnFile /\ call.self.kind = "FileReader" /\ IsUtf8(Bytes)) =>
        /\ result.tag = "Ok"
        /\ call.self.trim => IsTrimOf(result.value, Bytes)
        /\ ~call.self.trim => result.value = Bytes
        /\ IsTrimOf(Bytes, Bytes) => result.value = Bytes

C4_Witness ==
    /\ OnFile
    /\ call.self.kind = "FileReader"
    /\ call.self.trim
    /\ Bytes = <<SP, "x", LF>>
    /\ result = Ok(<<"x">>)

\* C5: the whitespace-split read never hands an empty chunk to the parser;
\* the chunks it parses are the maximal runs of non-whitespace characters, in
\* file order (all of them on success), and an empty or all-whitespace file
\* yields the empty sequence.
C5_MaximalRuns ==
    (OnFile /\ call.self.kind = "SplitWhitespace") =>
        /\ \A i \in 1..Len(handed) : handed[i] # <<>>
        /\ IsUtf8(Bytes) =>
              /\ IsPrefix(handed, MaximalRuns(Bytes))
              /\ result.tag = "Ok" =>
                    /\ handed = MaximalRuns(Bytes)
                    /\ Len(result.value) = Len(MaximalRuns(Bytes))
              /\ (\A i \in 1..Len(Bytes) : IsWhitespace(Bytes[i])) =>
                    result = Ok(<<>>)

C5_Witness ==
    /\ OnFile
    /\ call.self.kind = "SplitWhitespace"
    /\ call.T = "u32"
    /\ Bytes = <<LF, SP, "4">>
    /\ result = Ok(<<4>>)

\* The chunks of a character-split call: the k + 1 pieces between the k
\* delimiters of the file, trimmed iff trim is set.
CharChunks == Trimmed(call.self, PiecesBetween(Bytes, call.self.delimiter))

OnTextByChar == OnFile /\ call.self.kind = "SplitChar" /\ IsUtf8(Bytes)

\* C6 as stated: for a file with k delimiters exactly k + 1 chunks are
\* parsed.
C6_AllChunksParsed ==
    OnTextByChar =>
        Len(handed) = Len(Positions(Bytes, call.self.delimiter)) + 1

\* C6, amended: a file with k delimiters is split into exactly k + 1 chunks
\* (adjacent, leading and trailing delimiters and the empty file giving empty
\* chunks), trimmed iff trim is set; they are parsed in file order up to and
\* including the first one that fails to parse; on success all k + 1 are
\* parsed and the result has length k + 1.
C6_SplitAtEveryDelimiter ==
    OnTextByChar =>
        /\ Len(CharChunks) = Len(Positions(Bytes, call.self.delimiter)) + 1
        /\ handed # <<>>
        /\ IsPrefix(handed, CharChunks)
        /\ \A i \in 1..(Len(handed) - 1) : Parse(call.T, handed[i]).tag = "Ok"
        /\ IF result.tag = "Ok"
           THEN /\ handed = CharChunks
                /\ Len(result.value) = Len(CharChunks)
                /\ \A i \in 1..Len(CharChunks) :
                      result.value[i] = Parse(call.T, CharChunks[i]).value
           ELSE /\ Parse(call.T, handed[Len(handed)]).tag = "Err"
                /\ result = ParseError(Parse(call.T, handed[Len(handed)]).err)

C6_Witness ==
    /\ OnTextByChar
    /\ call.self.delimiter = ","
    /\ call.T = "String"
    /\ ~call.self.trim
    /\ Bytes = <<",", ",", SP>>
    /\ result = Ok(<< <<>>, <<>>, <<SP>> >>)

C8_TrimIgnoredByWhitespace ==
    /\ reader.kind = "SplitWhitespace" =>
          reader = FileReader_split_whitespace(FileReader_new)
    /\ (IsCall /\ call.self.kind = "SplitWhitespace") =>
          /\ call.self = FileReader_split_whitespace(FileReader_new)
          /\ result =
                SplitWhitespace_read_from_file(
                    FileReader_split_whitespace(FileReader_new),
                    fs, call.path, call.T).result

C8_Witness ==
    /\ hist.trimBefore
    /\ OnFile
    /\ call.self.kind = "SplitWhitespace"
    /\ result.tag = "Ok"
    /\ Len(result.value) = 2

\* Every item the line iterator would yield for the file, with the outcome
\* of the closure on it.
RECURSIVE LineOutcomes(_, _, _)
LineOutcomes(self, rest, T) ==
    LET item == Lines_next(rest)
    IN  IF item.tag = "None" THEN <<>>
        ELSE <<IF item.tag = "Err" THEN IoError(item.kind)
               ELSE LET r == Parse(T, Prepare(self, item.line))
                    IN  IF r.tag = "Err" THEN ParseError(r.err) ELSE Ok(r.value)>>
             \o LineOutcomes(self, item.rest, T)

Failing(outcomes) == {i \in 1..Len(outcomes) : outcomes[i].tag # "Ok"}

\* C9: a line-split read returns the error of the first line that fails,
\* whichever its kind (ParseError wrapping that line's parse error, or
\* IoError for invalid text); no line after it is pulled or parsed.
C9_FirstFailureWins ==
    (OnFile /\ call.self.kind = "SplitLines") =>
        LET outcomes == LineOutcomes(call.self, Bytes, call.T)
        IN  IF Failing(outcomes) = {}
            THEN /\ result.tag = "Ok"
                 /\ pulled = Len(outcomes)
                 /\ Len(handed) = Len(outcomes)
            ELSE LET f == CHOOSE i \in Failing(outcomes) :
                              \A j \in Failing(outcomes) : i <= j
                 IN  /\ result = outcomes[f]
                     /\ pulled = f
                     /\ Len(handed) = IF result.tag = "ParseError" THEN f ELSE f - 1

C9_Witness ==
    /\ OnFile
    /\ call.self.kind = "SplitLines"
    /\ call.T = "u32"
    /\ Bytes = <<LF, "x">>
    /\ result = ParseError("Empty")
    /\ pulled = 1

\* C10: new() has trim = false; a line-split or character-split configuration
\* has trim = true iff trim() was called before or after the split_* call;
\* the mode and delimiter are those of the split_* call, whatever trim()
\* calls follow.
C10_BuilderInvariant ==
    /\ FileReader_new.trim = FALSE
    /\ reader.kind \in {"FileReader", "SplitLines", "SplitChar"} =>
          reader.trim = (hist.trimBefore \/ hist.trimAfter)
    /\ reader.kind = "FileReader" => hist.split = "None"
    /\ IsSplit(reader) => reader.kind = hist.split
    /\ reader.kind = "SplitChar" => reader.delimiter = hist.delimiter
    /\ FileReader_split_lines(FileReader_trim(FileReader_new))
          = SplitLines_trim(FileReader_split_lines(FileReader_new))
    /\ \A d \in Delimiters :
          FileReader_split_char(FileReader_trim(FileReader_new), d)
              = SplitChar_trim(FileReader_split_char(FileReader_new, d))

C10_Witness ==
    /\ reader.kind = "SplitChar"
    /\ reader.trim
    /\ hist.trimAfter
    /\ ~hist.trimBefore
    /\ reader.delimiter = SP

====
